---- MODULE Spec2Model ----
(***************************************************************************)
(* Session / credential lifecycle of the petz backend                      *)
(* (src/src/app.py, src/src/db.py).                                        *)
(*                                                                         *)
(* The user table is a function from row id to row.  The clock `now` is    *)
(* datetime.datetime.now() counted in ticks of 12 hours, so that           *)
(* datetime.timedelta(days=1) is Day = 2 ticks.  Tokens are the values     *)
(* hashlib.sha1(os.urandom(64)).hexdigest() returns; the k-th call of the  *)
(* generator is modelled as returning the number k, i.e. 64 random bytes   *)
(* are taken never to repeat.  The empty string is token 0.                *)
(*                                                                         *)
(* users_dao (imported by app.py) is not part of the sources; its four     *)
(* functions are modelled from the specification, section 4.2.             *)
(* The Category and Review tables are outside the model.                   *)
(***************************************************************************)
EXTENDS Integers, FiniteSets, Sequences, TLC

VARIABLES users, now, nextTok, resp, spent, loggedOut, issuedAt, conn

vars == <<users, now, nextTok, resp, spent, loggedOut, issuedAt, conn>>

\* ------------------------------------------------------------- bounds
MaxTime == 2
MaxIssue == 3
MaxConcIssue == 3

\* ---------------------------------------------------------- constants
Day == 2

None == "None"
NoUser == 0
Emails == {"a@x.com", "b@x.com"}
Passwords == {"pw1", "pw2"}

InvalidSession == "Invalid session token"
InvalidUpdate == "Invalid update token"
SecretMsg == "Wow we implemented session token!!"
LoggedOutMsg == "User has successfully logged out"

\* --------------------------------------------------------- db.py: User
_urlsafe_base_64_fixed(k) == 1

\* hashlib.sha1(os.urandom(64)).hexdigest(): the value of the (k+1)-th call
_urlsafe_base_64(k) == k + 1

\* bcrypt.hashpw(password, gensalt): a digest that only checkpw can relate
\* to the password
hashpw(password) == <<"bcrypt", password>>

checkpw(password, digest) == digest = <<"bcrypt", password>>

\* the update token is generated once and kept
renew_session_same_update(u, t, k) ==
    [u EXCEPT !.session_token = _urlsafe_base_64(k),
              !.session_expiration = t + Day,
              !.update_token = IF @ = 0 THEN _urlsafe_base_64(k + 1) ELSE @]

\* the session token is generated once and kept
renew_session_same_session(u, t, k) ==
    [u EXCEPT !.session_token = IF @ = 0 THEN _urlsafe_base_64(k) ELSE @,
              !.session_expiration = t + Day,
              !.update_token = _urlsafe_base_64(k + 1)]

\* User.renew_session at time t, after k calls of the generator
renew_session(u, t, k) ==
    [u EXCEPT !.session_token = _urlsafe_base_64(k),
              !.session_expiration = t + Day,
              !.update_token = _urlsafe_base_64(k + 1)]

\* User.__init__ followed by the INSERT that assigns the row id
UserInit(id, kwargs, t, k) ==
    renew_session(
        [id |-> id,
         name |-> kwargs.name,
         username |-> kwargs.username,
         bio |-> kwargs.bio,
         contact |-> kwargs.contact,
         host |-> kwargs.host,
         owner |-> kwargs.owner,
         available |-> kwargs.available,
         email |-> kwargs.email,
         password_digest |-> hashpw(kwargs.password),
         session_token |-> 0,
         session_expiration |-> 0,
         update_token |-> 0], t, k)

\* INTEGER PRIMARY KEY of SQLite: one more than the largest row id in use
NewId(tbl) ==
    IF DOMAIN tbl = {} THEN 1
    ELSE (CHOOSE i \in DOMAIN tbl : \A j \in DOMAIN tbl : j <= i) + 1

serialize(u) ==
    [id |-> u.id, name |-> u.name, username |-> u.username, bio |-> u.bio,
     contact |-> u.contact, host |-> u.host, owner |-> u.owner,
     available |-> u.available]

verify_password(u, password) == checkpw(password, u.password_digest)

verify_session_token_le(u, session_token, t) ==
    session_token = u.session_token /\ t <= u.session_expiration

verify_session_token(u, session_token, t) ==
    session_token = u.session_token /\ t < u.session_expiration

verify_update_token(u, update_token) == update_token = u.update_token

\* str(datetime)
str(t) == <<"datetime", t>>

\* ------------------------------------------------------------ users_dao
First(tbl, S) ==
    IF S = {} THEN NoUser ELSE CHOOSE i \in S : \A j \in S : i <= j

get_user_by_email(tbl, email) ==
    First(tbl, {i \in DOMAIN tbl : tbl[i].email = email})

get_user_by_session_token(tbl, session_token) ==
    First(tbl, {i \in DOMAIN tbl : tbl[i].session_token = session_token})

get_user_by_update_token(tbl, update_token) ==
    First(tbl, {i \in DOMAIN tbl : verify_update_token(tbl[i], update_token)})

unique_ok_email_unchecked(tbl, row) == TRUE

\* email = db.Column(db.String, nullable=False, unique=True): the INSERT of
\* row is accepted.  (The unique constraints of the two token columns never
\* reject a row, the generator being fresh.)
unique_ok(tbl, row) == \A i \in DOMAIN tbl : tbl[i].email # row.email

\* users_dao.create_user: <<created, table>>, the table with the new row
create_user(tbl, kwargs, t, k) ==
    LET id == NewId(tbl)
        row == UserInit(id, kwargs, t, k)
    IN  IF ~unique_ok(tbl, row)
        THEN <<FALSE, tbl>>
        ELSE <<TRUE, (id :> row) @@ tbl>>

\* users_dao.verify_credentials: the row id, NoUser on failure
verify_credentials(tbl, email, password) ==
    LET id == get_user_by_email(tbl, email)
    IN  IF id = NoUser THEN NoUser
        ELSE IF verify_password(tbl[id], password) THEN id ELSE NoUser

\* users_dao.renew_session: <<row id or NoUser, table after the commit>>
dao_renew_session(tbl, update_token, t, k) ==
    LET id == get_user_by_update_token(tbl, update_token)
    IN  IF id = NoUser THEN <<NoUser, tbl>>
        ELSE <<id, [tbl EXCEPT ![id] = renew_session(tbl[id], t, k)]>>

\* --------------------------------------------------------------- app.py
\* an Authorization header: absent, or "Bearer " and a token
NoHeader == [present |-> FALSE, token |-> 0]

Bearer(T) == [present |-> TRUE, token |-> T]

\* the headers presented with a session token: none, "Bearer" alone, the
\* session token of every record, every token that was logged out, and one
\* token that was never issued
SessionHeaders ==
    {NoHeader, Bearer(0), Bearer(nextTok + 1)}
        \cup {Bearer(users[i].session_token) : i \in DOMAIN users}
        \cup {Bearer(T) : T \in loggedOut}

\* the headers presented with an update token: none, "Bearer" alone, the
\* update token of every record, every token a renew has used up, and one
\* token that was never issued
UpdateHeaders ==
    {NoHeader, Bearer(0), Bearer(nextTok + 1)}
        \cup {Bearer(users[i].update_token) : i \in DOMAIN users}
        \cup {Bearer(T) : T \in spent}

extract_token(h) ==
    IF ~h.present
    THEN [ok |-> FALSE, token |-> 0, error |-> "Missing auth header"]
    ELSE IF h.token = 0
         THEN [ok |-> FALSE, token |-> 0, error |-> "Invalid auth header"]
         ELSE [ok |-> TRUE, token |-> h.token, error |-> ""]

verify_session_no_expiry(tbl, session_token, t) ==
    get_user_by_session_token(tbl, session_token)

\* the lookup and check that guard a protected request (logout, 430-432)
verify_session(tbl, session_token, t) ==
    LET id == get_user_by_session_token(tbl, session_token)
    IN  IF id # NoUser /\ verify_session_token(tbl[id], session_token, t)
        THEN id ELSE NoUser

\* request.data: a JSON object is a function from its keys to their values
get(body, key, default) == IF key \in DOMAIN body THEN body[key] ELSE default

RegBodies ==
    {[email |-> e, password |-> "pw1", name |-> "n", username |-> "u",
      contact |-> "c"] : e \in Emails}
        \cup {[password |-> "pw1", name |-> "n", username |-> "u",
               contact |-> "c"],
              [email |-> "a@x.com", name |-> "n", username |-> "u",
               contact |-> "c"],
              [email |-> "b@x.com", password |-> "pw1", username |-> "u"]}

LoginBodies ==
    [email : Emails, password : Passwords]
        \cup {[email |-> "a@x.com"], [password |-> "pw1"]}

UpdateBodies ==
    {[n \in {} |-> None],
     [bio |-> "b2", contact |-> "c2", host |-> TRUE, owner |-> TRUE,
      available |-> TRUE]}

TokenTriple(u) ==
    [session_token |-> u.session_token,
     session_expiration |-> str(u.session_expiration),
     update_token |-> u.update_token]

\* the response in flight: the JSON body (error, data) and status code, with
\* the handler that made it, the bearer token it was given and the id of the
\* row it acted on
Response(op, code, error, token, id, data) ==
    [op |-> op, code |-> code, error |-> error, token |-> token, id |-> id,
     data |-> data, email |-> ""]

\* the response of a handler that was given an email
EmailResponse(op, code, error, email, id, data) ==
    [op |-> op, code |-> code, error |-> error, token |-> 0, id |-> id,
     data |-> data, email |-> email]

NoData == [n \in {} |-> None]

register_account(body) ==
    LET email == get(body, "email", None)
        password == get(body, "password", None)
        name == get(body, "name", None)
        username == get(body, "username", None)
        contact == get(body, "contact", None)
        kwargs == [email |-> email, password |-> password, name |-> name,
                   username |-> username, bio |-> get(body, "bio", None),
                   contact |-> contact, host |-> get(body, "host", FALSE),
                   owner |-> get(body, "owner", FALSE),
                   available |-> get(body, "available", FALSE)]
        r == create_user(users, kwargs, now, nextTok)
        id == NewId(users)
    IN  /\ UNCHANGED <<now, spent, loggedOut, conn>>
        /\ IF email = None \/ password = None
           THEN /\ resp' = EmailResponse("register", 400,
                                         "Invalid email or password", email,
                                         NoUser, NoData)
                /\ UNCHANGED <<users, nextTok, issuedAt>>
           ELSE IF name = None \/ username = None \/ contact = None
           THEN /\ resp' = EmailResponse("register", 400, "Missing input",
                                         email, NoUser, NoData)
                /\ UNCHANGED <<users, nextTok, issuedAt>>
           ELSE IF ~r[1]
           THEN /\ resp' = EmailResponse("register", 400,
                                         "Incorrect email or password", email,
                                         NoUser, NoData)
                /\ UNCHANGED <<users, nextTok, issuedAt>>
           ELSE /\ nextTok < 2 * MaxIssue
                /\ users' = r[2]
                /\ nextTok' = nextTok + 2
                /\ issuedAt' = (id :> now) @@ issuedAt
                /\ resp' = EmailResponse("register", 201, "", email, id,
                                         [user |-> serialize(r[2][id]),
                                          tokens |-> TokenTriple(r[2][id])])

\* a login that extends the session it finds
login_renews(body) ==
    LET email == get(body, "email", None)
        password == get(body, "password", None)
        id == verify_credentials(users, email, password)
    IN  /\ UNCHANGED <<now, nextTok, spent, loggedOut, issuedAt, conn>>
        /\ IF email = None \/ password = None
           THEN /\ resp' = EmailResponse("login", 400,
                                         "Invalid email or password", email,
                                         NoUser, NoData)
                /\ UNCHANGED users
           ELSE IF id = NoUser
           THEN /\ resp' = EmailResponse("login", 400,
                                         "Incorrect email or password", email,
                                         NoUser, NoData)
                /\ UNCHANGED users
           ELSE /\ users' = [users EXCEPT
                               ![id].session_expiration = now + Day]
                /\ resp' = EmailResponse("login", 200, "", email, id,
                                         TokenTriple(users'[id]))

login(body) ==
    LET email == get(body, "email", None)
        password == get(body, "password", None)
        id == verify_credentials(users, email, password)
    IN  /\ UNCHANGED <<users, now, nextTok, spent, loggedOut, issuedAt, conn>>
        /\ IF email = None \/ password = None
           THEN resp' = EmailResponse("login", 400,
                                      "Invalid email or password", email,
                                      NoUser, NoData)
           ELSE IF id = NoUser
           THEN resp' = EmailResponse("login", 400,
                                      "Incorrect email or password", email,
                                      NoUser, NoData)
           ELSE resp' = EmailResponse("login", 200, "", email, id,
                                      TokenTriple(users[id]))

\* a renew that is refused once the session of the record has ended
update_session_live(h) ==
    LET x == extract_token(h)
        r == dao_renew_session(users, x.token, now, nextTok)
        id == r[1]
    IN  /\ UNCHANGED <<now, conn>>
        /\ IF ~x.ok
           THEN /\ resp' = Response("renew", 200, x.error, 0, NoUser, NoData)
                /\ UNCHANGED <<users, nextTok, spent, loggedOut, issuedAt>>
           ELSE IF id = NoUser \/ now >= users[id].session_expiration
           THEN /\ resp' = Response("renew", 200, InvalidUpdate, x.token,
                                    NoUser, NoData)
                /\ UNCHANGED <<users, nextTok, spent, loggedOut, issuedAt>>
           ELSE /\ nextTok < 2 * MaxIssue
                /\ users' = r[2]
                /\ nextTok' = nextTok + 2
                /\ spent' = spent \cup {x.token}
                /\ UNCHANGED loggedOut
                /\ issuedAt' = (id :> now) @@ issuedAt
                /\ resp' = Response("renew", 200, "", x.token, id,
                                    [tokens |-> TokenTriple(r[2][id]),
                                     prev |-> TokenTriple(users[id])])

update_session(h) ==
    LET x == extract_token(h)
        r == dao_renew_session(users, x.token, now, nextTok)
        id == r[1]
    IN  /\ UNCHANGED <<now, conn>>
        /\ IF ~x.ok
           THEN /\ resp' = Response("renew", 200, x.error, 0, NoUser, NoData)
                /\ UNCHANGED <<users, nextTok, spent, loggedOut, issuedAt>>
           ELSE IF id = NoUser
           THEN /\ resp' = Response("renew", 200, InvalidUpdate, x.token,
                                    NoUser, NoData)
                /\ UNCHANGED <<users, nextTok, spent, loggedOut, issuedAt>>
           ELSE /\ nextTok < 2 * MaxIssue
                /\ users' = r[2]
                /\ nextTok' = nextTok + 2
                /\ spent' = spent \cup {x.token}
                /\ UNCHANGED loggedOut
                /\ issuedAt' = (id :> now) @@ issuedAt
                /\ resp' = Response("renew", 200, "", x.token, id,
                                    [tokens |-> TokenTriple(r[2][id]),
                                     prev |-> TokenTriple(users[id])])

secret_message(h) ==
    LET x == extract_token(h)
        id == get_user_by_session_token(users, x.token)
    IN  /\ UNCHANGED <<users, now, nextTok, spent, loggedOut, issuedAt, conn>>
        /\ IF ~x.ok
           THEN resp' = Response("secret", 200, x.error, 0, NoUser, NoData)
           ELSE IF id = NoUser
                   \/ verify_session_token(users[id], x.token, now)
           THEN resp' = Response("secret", 200, InvalidSession, x.token, id,
                                 NoData)
           ELSE resp' = Response("secret", 200, "", x.token, id,
                                 [message |-> SecretMsg])

\* a logout that also blanks the session token of the record
logout_clears_token(h) ==
    LET x == extract_token(h)
        id == verify_session(users, x.token, now)
    IN  /\ UNCHANGED <<now, nextTok, spent, conn>>
        /\ IF ~x.ok
           THEN /\ resp' = Response("logout", 200, x.error, 0, NoUser, NoData)
                /\ UNCHANGED <<users, loggedOut, issuedAt>>
           ELSE IF id = NoUser
           THEN /\ resp' = Response("logout", 400, InvalidSession, x.token,
                                    NoUser, NoData)
                /\ UNCHANGED <<users, loggedOut, issuedAt>>
           ELSE /\ users' = [users EXCEPT ![id].session_expiration = now,
                                          ![id].session_token = 0]
                /\ loggedOut' = loggedOut \cup {x.token}
                /\ issuedAt' = [i \in DOMAIN issuedAt \ {id} |-> issuedAt[i]]
                /\ resp' = Response("logout", 200, "", x.token, id,
                                    [message |-> LoggedOutMsg])

logout(h) ==
    LET x == extract_token(h)
        id == verify_session(users, x.token, now)
    IN  /\ UNCHANGED <<now, nextTok, spent, conn>>
        /\ IF ~x.ok
           THEN /\ resp' = Response("logout", 200, x.error, 0, NoUser, NoData)
                /\ UNCHANGED <<users, loggedOut, issuedAt>>
           ELSE IF id = NoUser
           THEN /\ resp' = Response("logout", 400, InvalidSession, x.token,
                                    NoUser, NoData)
                /\ UNCHANGED <<users, loggedOut, issuedAt>>
           ELSE /\ users' = [users EXCEPT ![id].session_expiration = now]
                /\ loggedOut' = loggedOut \cup {x.token}
                /\ issuedAt' = [i \in DOMAIN issuedAt \ {id} |-> issuedAt[i]]
                /\ resp' = Response("logout", 200, "", x.token, id,
                                    [message |-> LoggedOutMsg])

\* a profile update that also extends the session of the record
update_user_by_id_extends(user_id, body) ==
    /\ UNCHANGED <<now, nextTok, spent, loggedOut, issuedAt, conn>>
    /\ IF user_id \notin DOMAIN users
       THEN /\ resp' = Response("update", 404, "User not found", 0, NoUser,
                                NoData)
            /\ UNCHANGED users
       ELSE LET u == users[user_id]
                v == [u EXCEPT
                        !.bio = get(body, "bio", u.bio),
                        !.contact = get(body, "contact", u.contact),
                        !.host = get(body, "host", u.host),
                        !.owner = get(body, "owner", u.owner),
                        !.available = get(body, "available", u.available),
                        !.session_expiration = now + Day]
            IN  /\ users' = [users EXCEPT ![user_id] = v]
                /\ resp' = Response("update", 201, "", 0, user_id,
                                    serialize(v))

update_user_by_id(user_id, body) ==
    /\ UNCHANGED <<now, nextTok, spent, loggedOut, issuedAt, conn>>
    /\ IF user_id \notin DOMAIN users
       THEN /\ resp' = Response("update", 404, "User not found", 0, NoUser,
                                NoData)
            /\ UNCHANGED users
       ELSE LET u == users[user_id]
                v == [u EXCEPT
                        !.bio = get(body, "bio", u.bio),
                        !.contact = get(body, "contact", u.contact),
                        !.host = get(body, "host", u.host),
                        !.owner = get(body, "owner", u.owner),
                        !.available = get(body, "available", u.available)]
            IN  /\ users' = [users EXCEPT ![user_id] = v]
                /\ resp' = Response("update", 201, "", 0, user_id,
                                    serialize(v))

delete_user(user_id) ==
    /\ UNCHANGED <<now, nextTok, spent, loggedOut, conn>>
    /\ IF user_id \notin DOMAIN users
       THEN /\ resp' = Response("delete", 404, "User not found", 0, NoUser,
                                NoData)
            /\ UNCHANGED <<users, issuedAt>>
       ELSE /\ users' = [i \in DOMAIN users \ {user_id} |-> users[i]]
            /\ issuedAt' = [i \in DOMAIN issuedAt \ {user_id} |-> issuedAt[i]]
            /\ resp' = Response("delete", 200, "", 0, user_id,
                                serialize(users[user_id]))

get_user(user_id) ==
    /\ UNCHANGED <<users, now, nextTok, spent, loggedOut, issuedAt, conn>>
    /\ IF user_id \notin DOMAIN users
       THEN resp' = Response("get_user", 404, "User not found", 0, NoUser,
                             NoData)
       ELSE resp' = Response("get_user", 200, "", 0, user_id,
                             serialize(users[user_id]))

NoResponse == Response("none", 0, "", 0, NoUser, NoData)

\* datetime.datetime.now() advances
Tick ==
    /\ now < MaxTime
    /\ now' = now + 1
    /\ UNCHANGED <<users, nextTok, resp, spent, loggedOut, issuedAt, conn>>

\* the response leaves; the server takes the next request
Deliver ==
    /\ resp # NoResponse
    /\ resp' = NoResponse
    /\ UNCHANGED <<users, now, nextTok, spent, loggedOut, issuedAt, conn>>

\* the row ids requests name: every row, and one id that has no row
UserIds == DOMAIN users \cup {NewId(users)}

Workers == {1, 2}

Idle == [pc |-> "idle", token |-> 0, error |-> "", row |-> NoData]

Init ==
    /\ users = [i \in {} |-> None]
    /\ now = 0
    /\ nextTok = 0
    /\ resp = NoResponse
    /\ spent = {}
    /\ loggedOut = {}
    /\ issuedAt = [i \in {} |-> 0]
    /\ conn = [w \in Workers |-> Idle]

\* the server is free to take a request
Ready == resp = NoResponse

\* one request at a time: a request is handled, then its response leaves
Next ==
    \/ \E body \in RegBodies : Ready /\ register_account(body)
    \/ \E body \in LoginBodies : Ready /\ login(body)
    \/ \E h \in UpdateHeaders : Ready /\ update_session(h)
    \/ \E h \in SessionHeaders : Ready /\ secret_message(h)
    \/ \E h \in SessionHeaders : Ready /\ logout(h)
    \/ \E i \in UserIds, body \in UpdateBodies :
            Ready /\ update_user_by_id(i, body)
    \/ \E i \in UserIds : Ready /\ delete_user(i)
    \/ \E i \in UserIds : Ready /\ get_user(i)
    \/ Ready /\ Tick
    \/ Deliver

Spec == Init /\ [][Next]_vars

\* ---------------------------------------------- concurrent renew requests
\* The development server handles each request in a thread of its own, each
\* with its own database session: the steps of users_dao.renew_session
\* (query, User.renew_session on the loaded object, commit) of two requests
\* interleave.  conn[w] is the request of thread w and its loaded object.

\* the query: SELECT ... WHERE update_token = ?
RenewLookup(w, h) ==
    LET x == extract_token(h)
        id == get_user_by_update_token(users, x.token)
    IN  /\ conn[w].pc = "idle"
        /\ conn' = [conn EXCEPT ![w] =
                      IF ~x.ok
                      THEN [pc |-> "done", token |-> 0, error |-> x.error,
                            row |-> NoData]
                      ELSE IF id = NoUser
                      THEN [pc |-> "done", token |-> x.token,
                            error |-> InvalidUpdate, row |-> NoData]
                      ELSE [pc |-> "loaded", token |-> x.token, error |-> "",
                            row |-> users[id]]]
        /\ UNCHANGED <<users, now, nextTok, resp, spent, loggedOut, issuedAt>>

\* user.renew_session() on the loaded object
RenewMutate(w) ==
    /\ conn[w].pc = "loaded"
    /\ nextTok < 2 * MaxConcIssue
    /\ conn' = [conn EXCEPT ![w].pc = "dirty",
                            ![w].row = renew_session(@, now, nextTok)]
    /\ nextTok' = nextTok + 2
    /\ UNCHANGED <<users, now, resp, spent, loggedOut, issuedAt>>

\* db.session.commit(): UPDATE user SET session_token = ?,
\* session_expiration = ?, update_token = ? WHERE user.id = ?
RenewCommit(w) ==
    LET row == conn[w].row
    IN  /\ conn[w].pc = "dirty"
        /\ row.id \in DOMAIN users
        /\ users' = [users EXCEPT
                       ![row.id].session_token = row.session_token,
                       ![row.id].session_expiration = row.session_expiration,
                       ![row.id].update_token = row.update_token]
        /\ conn' = [conn EXCEPT ![w].pc = "done"]
        /\ spent' = spent \cup {conn[w].token}
        /\ issuedAt' = (row.id :> row.session_expiration - Day) @@ issuedAt
        /\ UNCHANGED <<now, nextTok, resp, loggedOut>>

\* update_session returns; the thread takes the next request
RenewReturn(w) ==
    /\ conn[w].pc = "done"
    /\ conn' = [conn EXCEPT ![w] = Idle]
    /\ UNCHANGED <<users, now, nextTok, resp, spent, loggedOut, issuedAt>>

NextConc ==
    \/ \E body \in RegBodies : Ready /\ register_account(body)
    \/ Deliver
    \/ Ready /\ Tick
    \/ \E w \in Workers, h \in UpdateHeaders : RenewLookup(w, h)
    \/ \E w \in Workers : RenewMutate(w)
    \/ \E w \in Workers : RenewCommit(w)
    \/ \E w \in Workers : RenewReturn(w)

SpecConc == Init /\ [][NextConc]_vars

\* ----------------------------------------------------------------- claims
\* a record holds token T as its session token and t is before its expiration
SessionValid(T, t) ==
    \E i \in DOMAIN users :
        users[i].session_token = T /\ t < users[i].session_expiration

\* C1: the protected endpoint secret_message reports success exactly when
\* some record holds the presented token as its session token and now is
\* before that record's session_expiration; otherwise it reports "Invalid
\* session token".
C1_SecretMessageVerifiesSession ==
    (resp.op = "secret" /\ resp.token # 0) =>
        IF SessionValid(resp.token, now)
        THEN resp.error = ""
        ELSE resp.error = InvalidSession

\* C2: once logout(T) has succeeded, verify_session(T) returns nothing, at
\* the instant of the logout and at every later time (the more so while no
\* renew is performed on that user).
C2_LoggedOutNeverVerifies ==
    \A T \in loggedOut : verify_session(users, T, now) = NoUser

\* a logged-out token is still on its record, at a time after the logout
C2_Witness ==
    \E T \in loggedOut : \E i \in DOMAIN users :
        /\ users[i].session_token = T
        /\ now > users[i].session_expiration
        /\ resp = NoResponse

\* C3: an update token with which a renew has succeeded is refused ever
\* after: the renew fails with "Invalid update token" and no record changes.
C3_SpentUpdateTokenRefused ==
    [][(resp'.op = "renew" /\ resp'.token \in spent) =>
          (resp'.error = InvalidUpdate /\ users' = users)]_vars

\* a renew with a spent update token has just been refused
C3_Witness ==
    resp.op = "renew" /\ resp.token \in spent /\ resp.error = InvalidUpdate

\* C4: a successful renew(U1) on a user holding (T1, U1) installs
\* (T2, U2, now + 24h) with T2 # T1 and U2 # U1; right afterwards
\* verify_session(T2) returns that user and verify_session(T1) nothing.
C4_RenewInstallsFreshTriple ==
    (resp.op = "renew" /\ resp.error = "") =>
        LET u == users[resp.id]
            T1 == resp.data.prev.session_token
            U1 == resp.data.prev.update_token
        IN  /\ U1 = resp.token
            /\ resp.data.tokens = [session_token |-> u.session_token,
                                   session_expiration |-> str(now + Day),
                                   update_token |-> u.update_token]
            /\ u.session_expiration = now + Day
            /\ u.session_token # T1
            /\ u.update_token # U1
            /\ verify_session(users, u.session_token, now) = resp.id
            /\ verify_session(users, T1, now) = NoUser

\* a renew has succeeded while the old session had not yet expired
C4_Witness ==
    /\ resp.op = "renew"
    /\ resp.error = ""
    /\ str(now + 1) = resp.data.prev.session_expiration

\* C5: registering an email that a record already has fails, adds no record
\* and leaves every record as it was, so the first registration's tokens
\* verify as before.
C5_DuplicateEmailRejected ==
    [][(/\ resp'.op = "register"
        /\ \E i \in DOMAIN users : users[i].email = resp'.email) =>
          (/\ resp'.code = 400
           /\ resp'.error # ""
           /\ users' = users
           /\ \A i \in DOMAIN users :
                 verify_session(users', users[i].session_token, now')
                     = verify_session(users, users[i].session_token, now))]_vars

\* a registration was refused for its email while the first registration's
\* session is valid
C5_Witness ==
    /\ resp.op = "register"
    /\ resp.error = "Incorrect email or password"
    /\ \E i \in DOMAIN users : users[i].email = resp.email
    /\ \E i \in DOMAIN users :
          verify_session(users, users[i].session_token, now) = i

\* C6: a successful login returns the stored (session_token,
\* session_expiration, update_token) and changes no record, whether or not
\* the session has expired; a failed login changes no record either.
C6_LoginReadsOnly ==
    [][resp'.op = "login" =>
          /\ users' = users
          /\ resp'.error = "" =>
                /\ resp'.id \in DOMAIN users
                /\ users[resp'.id].email = resp'.email
                /\ resp'.data =
                      [session_token |-> users[resp'.id].session_token,
                       session_expiration |->
                           str(users[resp'.id].session_expiration),
                       update_token |-> users[resp'.id].update_token]]_vars

\* a login has succeeded on a session that had already expired
C6_Witness ==
    /\ resp.op = "login"
    /\ resp.error = ""
    /\ now >= users[resp.id].session_expiration

\* C7: no two distinct records share a session_token, and no two share an
\* update_token.
C7_TokensUnique ==
    \A i, j \in DOMAIN users :
        i # j => /\ users[i].session_token # users[j].session_token
                 /\ users[i].update_token # users[j].update_token

\* two records exist, one of them with renewed tokens
C7_Witness ==
    /\ Cardinality(DOMAIN users) = 2
    /\ spent # {}

\* C8: of two renew requests with the same update token handled at the same
\* time, never both return a new token triple.
C8_OneConcurrentRenewSucceeds ==
    \A v, w \in Workers :
        (/\ v # w
         /\ conn[v].pc = "done"
         /\ conn[w].pc = "done"
         /\ conn[v].token = conn[w].token
         /\ conn[v].token # 0) =>
            ~(conn[v].error = "" /\ conn[w].error = "")

\* C9: a session issued at t0 and neither renewed nor logged out since is
\* accepted at exactly the times t0 <= t < t0 + 24h.
C9_SessionWindow ==
    (resp.op = "secret" /\ resp.token # 0) =>
        \A i \in DOMAIN users \cap DOMAIN issuedAt :
            users[i].session_token = resp.token =>
                (resp.error = ""
                    <=> (issuedAt[i] <= now /\ now < issuedAt[i] + Day))

\* C10: a logout with a token that matches no record, or a record whose
\* session has expired or was logged out, fails with "Invalid session
\* token" and changes no record.
C10_LogoutOfDeadSessionFails ==
    [][(/\ resp'.op = "logout"
        /\ resp'.token # 0
        /\ ~SessionValid(resp'.token, now) \/ resp'.token \in loggedOut) =>
          (/\ resp'.code = 400
           /\ resp'.error = InvalidSession
           /\ users' = users)]_vars

\* a second logout with the same token has just failed
C10_Witness ==
    /\ resp.op = "logout"
    /\ resp.error = InvalidSession
    /\ resp.token \in loggedOut
    /\ \E i \in DOMAIN users : users[i].session_token = resp.token

\* C11: a successful logout changes only session_expiration of the matched
\* record, which becomes now: its session_token, update_token, email,
\* password digest and every other field, and every field of every other
\* record, are as before.
C11_LogoutChangesOnlyExpiration ==
    [][(resp'.op = "logout" /\ resp'.error = "") =>
          (/\ DOMAIN users' = DOMAIN users
           /\ resp'.id \in DOMAIN users
           /\ users[resp'.id].session_token = resp'.token
           /\ \A i \in DOMAIN users \ {resp'.id} : users'[i] = users[i]
           /\ users'[resp'.id].session_expiration = now
           /\ users'[resp'.id].session_token = users[resp'.id].session_token
           /\ users'[resp'.id].update_token = users[resp'.id].update_token
           /\ users'[resp'.id].email = users[resp'.id].email
           /\ users'[resp'.id].password_digest
                 = users[resp'.id].password_digest
           /\ [users'[resp'.id] EXCEPT !.session_expiration = 0]
                 = [users[resp'.id] EXCEPT !.session_expiration = 0])]_vars

\* a logout has succeeded on one of two records, at a time other than the
\* one its session was issued at
C11_Witness ==
    /\ resp.op = "logout"
    /\ resp.error = ""
    /\ Cardinality(DOMAIN users) = 2
    /\ users[resp.id].session_expiration = now
    /\ now > 0

\* C12: logout does not revoke the update token: a renew with the current
\* update token of a record that was logged out succeeds, the session token
\* it issues verifies for that record, and no logged-out session token
\* verifies, then or later.
C12_RenewAfterLogout ==
    [][(/\ resp'.op = "renew"
        /\ resp'.token # 0
        /\ \E i \in DOMAIN users :
              /\ users[i].update_token = resp'.token
              /\ users[i].session_token \in loggedOut) =>
          (/\ resp'.error = ""
           /\ resp'.id \in DOMAIN users
           /\ users[resp'.id].update_token = resp'.token
           /\ users'[resp'.id].session_token \notin loggedOut'
           /\ verify_session(users', users'[resp'.id].session_token, now')
                 = resp'.id
           /\ \A T \in loggedOut' :
                 verify_session(users', T, now') = NoUser)]_vars

\* a renew has succeeded for a record whose session had been logged out
C12_Witness ==
    /\ resp.op = "renew"
    /\ resp.error = ""
    /\ resp.data.prev.session_token \in loggedOut
    /\ verify_session(users, users[resp.id].session_token, now) = resp.id

\* C13: no step changes the id or the email of a record that exists before
\* and after it, and a profile update changes at most bio, contact, host,
\* owner and available of the one record it names: password digest, session
\* token, session expiration and update token stay, so every token verifies
\* after it exactly as before.
C13_ProfileUpdateFrame ==
    [][/\ \A i \in DOMAIN users \cap DOMAIN users' :
             /\ users'[i].id = users[i].id
             /\ users'[i].email = users[i].email
       /\ (resp'.op = "update" /\ resp'.error = "") =>
             /\ DOMAIN users' = DOMAIN users
             /\ resp'.id \in DOMAIN users
             /\ \A i \in DOMAIN users \ {resp'.id} : users'[i] = users[i]
             /\ users'[resp'.id] =
                   [users[resp'.id] EXCEPT
                      !.bio = users'[resp'.id].bio,
                      !.contact = users'[resp'.id].contact,
                      !.host = users'[resp'.id].host,
                      !.owner = users'[resp'.id].owner,
                      !.available = users'[resp'.id].available]
             /\ \A i \in DOMAIN users :
                   verify_session(users', users[i].session_token, now')
                       = verify_session(users, users[i].session_token, now)]_vars

\* a profile update has rewritten the five fields of a record whose session
\* was issued earlier and still verifies
C13_Witness ==
    /\ resp.op = "update"
    /\ resp.error = ""
    /\ users[resp.id].bio = "b2"
    /\ users[resp.id].host
    /\ now > 0
    /\ verify_session(users, users[resp.id].session_token, now) = resp.id

====
